---- MODULE Spec2Model ----
(***************************************************************************)
(* Model of src/index_recipes.py: the recipe indexer.                      *)
(*                                                                         *)
(* Strings are sequences of one-character strings, so that slicing,        *)
(* splitting, replacing and number formatting are computed the way the     *)
(* Python code computes them.                                              *)
(*                                                                         *)
(*   Spec         one run of index_recipes (lines 67-153)                  *)
(*   SpecPreview  create_preview applied to bounded inputs (lines 58-65)   *)
(*   SpecNames    the materialized copy name of two files (lines 121-122)  *)
(***************************************************************************)
EXTENDS Integers, Sequences, FiniteSets, TLC

(***************************************************************************)
(* Bounds of the model.                                                    *)
(***************************************************************************)
\* longest text given to create_preview under SpecPreview
MaxTextLen == 5
\* largest max_length given to create_preview under SpecPreview
MaxLength == 4
\* most entries rglob yields in one run under Spec
MaxFiles == 3
\* longest file name under SpecNames
MaxNameLen == 2

(***************************************************************************)
(* Characters and strings.                                                 *)
(***************************************************************************)
\* the characters Python's \s and str.strip() treat as whitespace
WhiteSpace == {" ", "\t", "\n", "\r"}

IsSpace(c) == c \in WhiteSpace

\* all strings over alphabet A of length at most n
StringsUpTo(A, n) == UNION {[1..k -> A] : k \in 0..n}

\* s[:n] for n >= 0
Prefix(s, n) == SubSeq(s, 1, IF n < Len(s) THEN n ELSE Len(s))

IsPrefixOf(p, s) == Len(p) <= Len(s) /\ SubSeq(s, 1, Len(p)) = p

(***************************************************************************)
(* create_preview (lines 58-65).                                           *)
(***************************************************************************)
RECURSIVE DropLeadingSpace(_)
\* the string without its leading whitespace
DropLeadingSpace(s) ==
    IF s # <<>> /\ IsSpace(Head(s)) THEN DropLeadingSpace(Tail(s)) ELSE s

RECURSIVE DropTrailingSpace(_)
\* the string without its trailing whitespace
DropTrailingSpace(s) ==
    IF s # <<>> /\ IsSpace(s[Len(s)])
    THEN DropTrailingSpace(SubSeq(s, 1, Len(s) - 1))
    ELSE s

RECURSIVE CollapseSpace(_)
\* re.sub(r'\s+', ' ', text): every maximal whitespace run becomes one space
CollapseSpace(s) ==
    IF s = <<>> THEN <<>>
    ELSE IF IsSpace(Head(s))
         THEN <<" ">> \o CollapseSpace(DropLeadingSpace(Tail(s)))
         ELSE <<Head(s)>> \o CollapseSpace(Tail(s))

\* str.strip()
Strip(s) == DropTrailingSpace(DropLeadingSpace(s))

\* line 62: cleaned = re.sub(r'\s+', ' ', text).strip()
Cleaned(text) == Strip(CollapseSpace(text))

\* index of the last ' ' of s, 0 when s holds none
LastSpace(s) ==
    IF \E i \in 1..Len(s) : s[i] = " "
    THEN CHOOSE i \in 1..Len(s) :
            s[i] = " " /\ \A j \in (i + 1)..Len(s) : s[j] # " "
    ELSE 0

\* s.rsplit(' ', 1)[0]: s up to its last space, all of s when it holds none
RSplitHead(s) == IF LastSpace(s) = 0 THEN s ELSE SubSeq(s, 1, LastSpace(s) - 1)

Ellipsis == <<".", ".", ".">>

\* line 63 with < for <=
FitsStrict(cleaned, max_length) == Len(cleaned) < max_length

\* line 63: len(cleaned) <= max_length
Fits(cleaned, max_length) == Len(cleaned) <= max_length

\* lines 58-65
create_preview(text, max_length) ==
    LET cleaned == Cleaned(text)
    IN  IF Fits(cleaned, max_length)
        THEN cleaned
        ELSE RSplitHead(Prefix(cleaned, max_length)) \o Ellipsis

\* line 58: max_length: int = 200
DefaultMaxLength == 200

(***************************************************************************)
(* The materialized copy name (lines 121-122).                             *)
(***************************************************************************)
DigitChar(d) == <<"0", "1", "2", "3", "4", "5", "6", "7", "8", "9">>[d + 1]

RECURSIVE Decimal(_)
\* str(n) for n >= 0
Decimal(n) ==
    IF n < 10 THEN <<DigitChar(n)>>
    ELSE Decimal(n \div 10) \o <<DigitChar(n % 10)>>

RECURSIVE ZeroPad(_, _)
\* the digits left-padded with '0' to the width; longer digit strings are kept
ZeroPad(digits, width) ==
    IF Len(digits) >= width THEN digits ELSE ZeroPad(<<"0">> \o digits, width)

\* f"{idx:03d}"
Format03d(idx) == ZeroPad(Decimal(idx), 3)

\* name.replace(' ', '_')
ReplaceSpaces(name) ==
    [i \in 1..Len(name) |-> IF name[i] = " " THEN "_" ELSE name[i]]

\* lines 121-122 without the sequence number
safe_filename_unnumbered(idx, name) == ReplaceSpaces(name)

\* lines 121-122: f"{idx:03d}_{filepath.name}", then .replace(' ', '_')
safe_filename(idx, name) == ReplaceSpaces(Format03d(idx) \o <<"_">> \o name)

(***************************************************************************)
(* File names, suffixes and the extension dispatch (lines 90-95, 102-113). *)
(***************************************************************************)
UpperLetters == <<"A", "B", "C", "D", "E", "F", "G", "H", "I", "J", "K", "L", "M",
                  "N", "O", "P", "Q", "R", "S", "T", "U", "V", "W", "X", "Y", "Z">>

LowerLetters == <<"a", "b", "c", "d", "e", "f", "g", "h", "i", "j", "k", "l", "m",
                  "n", "o", "p", "q", "r", "s", "t", "u", "v", "w", "x", "y", "z">>

LowerChar(c) ==
    IF \E k \in 1..26 : UpperLetters[k] = c
    THEN LowerLetters[CHOOSE k \in 1..26 : UpperLetters[k] = c]
    ELSE c

\* str.lower()
Lower(s) == [i \in 1..Len(s) |-> LowerChar(s[i])]

\* index of the last '.' of the name, 0 when it holds none
LastDot(name) ==
    IF \E i \in 1..Len(name) : name[i] = "."
    THEN CHOOSE i \in 1..Len(name) :
            name[i] = "." /\ \A j \in (i + 1)..Len(name) : name[j] # "."
    ELSE 0

\* Path.suffix: from the last dot on, empty for a leading or a trailing dot
Suffix(name) ==
    IF LastDot(name) > 1 /\ LastDot(name) < Len(name)
    THEN SubSeq(name, LastDot(name), Len(name))
    ELSE <<>>

\* line 90
pdf_ext == {<<".", "p", "d", "f">>}

\* line 91
html_ext == {<<".", "h", "t", "m", "l">>, <<".", "h", "t", "m">>}

\* line 92
text_ext == {<<".", "t", "x", "t">>, <<".", "m", "d">>}

\* line 95: f.is_file() and f.suffix.lower() in pdf_ext + html_ext + text_ext
IsRecipeFile(f) ==
    f.is_file /\ Lower(Suffix(f.name)) \in pdf_ext \cup html_ext \cup text_ext

\* line 95: the list comprehension keeps the order of all_files
SelectRecipeFiles(all_files) == SelectSeq(all_files, IsRecipeFile)

\* lines 105-113 with the last branch naming the type 'txt'
file_type_txt(ext) ==
    IF ext \in pdf_ext THEN "pdf" ELSE IF ext \in html_ext THEN "html" ELSE "txt"

\* lines 105-113: the type the dispatch on the lowered suffix gives
file_type(ext) ==
    IF ext \in pdf_ext THEN "pdf" ELSE IF ext \in html_ext THEN "html" ELSE "text"

RecipesSlash == <<"r", "e", "c", "i", "p", "e", "s", "/">>

\* line 127: web_path = f"recipes/{safe_filename}"
WebPath(safe) == RecipesSlash \o safe

(***************************************************************************)
(* The file system the run works on.                                       *)
(***************************************************************************)
\* lines 94-95: the entries rglob('*') may yield, each with the text its
\* extractor gives when it succeeds (lines 13-56) and its st_size (line 139)
Entries ==
    { [dir |-> "d1", name |-> <<"a", " ", "b", ".", "t", "x", "t">>, is_file |-> TRUE,
       body |-> <<"x", "\n", " ", "y", "\n">>, size |-> 5],
      [dir |-> "d2", name |-> <<"a", " ", "b", ".", "t", "x", "t">>, is_file |-> TRUE,
       body |-> <<>>, size |-> 0],
      [dir |-> "d2", name |-> <<"a", "_", "b", ".", "t", "x", "t">>, is_file |-> TRUE,
       body |-> <<"x", " ", "y">>, size |-> 3],
      [dir |-> "d1", name |-> <<"c", ".", "P", "D", "F">>, is_file |-> TRUE,
       body |-> <<"x">>, size |-> 9],
      [dir |-> "d1", name |-> <<"c", ".", "h", "t", "m">>, is_file |-> TRUE,
       body |-> <<"x", " ", "y">>, size |-> 8],
      [dir |-> "d1", name |-> <<"c", ".", "j", "p", "g">>, is_file |-> TRUE,
       body |-> <<>>, size |-> 7],
      [dir |-> "d1", name |-> <<"e", ".", "m", "d">>, is_file |-> FALSE,
       body |-> <<>>, size |-> 0] }

\* a traversal yields each path once, in an order the code does not fix
Traversals ==
    {t \in UNION {[1..k -> Entries] : k \in 0..MaxFiles} :
        \A i, j \in 1..Len(t) : i # j => t[i] # t[j]}

\* a copy left in the copy subdirectory by an earlier run
StaleCopy ==
    [dir |-> "old", name |-> <<"a", " ", "b", ".", "t", "x", "t">>, is_file |-> TRUE,
     body |-> <<"o", "l", "d">>, size |-> 3]

\* the index path holds no file
NoIndex == [state |-> "absent", records |-> <<>>]

\* the index path holds the index an earlier run wrote
StaleIndex == [state |-> "stale", records |-> <<>>]

\* line 146 truncated the index file and line 147 did not finish
PartialIndex == [state |-> "partial", records |-> <<>>]

\* lines 146-147: the index file holds the serialized records
WrittenIndex(rs) == [state |-> "written", records |-> rs]

\* the output location before the run: whether the copy subdirectory exists,
\* what it holds (file name -> the source it is a copy of), the index file
OutputsBefore ==
    { [dir_exists |-> FALSE, dir |-> <<>>, index |-> NoIndex],
      [dir_exists |-> TRUE, dir |-> <<>>, index |-> NoIndex],
      [dir_exists |-> TRUE,
       dir |-> (<<"0", "0", "1", "_", "a", "_", "b", ".", "t", "x", "t">> :> StaleCopy),
       index |-> StaleIndex] }

(***************************************************************************)
(* State.                                                                  *)
(***************************************************************************)
VARIABLES
    pc,            \* where the run of index_recipes is
    root_exists,   \* recipes_path.exists() (line 79)
    tree,          \* what recipes_path.rglob('*') yields, in its order (line 94)
    recipe_files,  \* line 95
    idx,           \* the enumerate counter of line 99
    text,          \* lines 105-117
    web_path,      \* line 127
    recipes,       \* line 87
    out,           \* the output location: copy subdirectory and index file
    out0,          \* history: the output location when the run began
    copied,        \* history: the idx whose copy2 succeeded
    unread,        \* history: the idx whose extractor failed
    index_writes,  \* history: how often lines 146-147 completed
    raised_at,     \* history: the step whose exception left index_recipes
    pv,            \* SpecPreview: one application of create_preview
    nm             \* SpecNames: the copy names of two files of one run

vars ==
    <<pc, root_exists, tree, recipe_files, idx, text, web_path, recipes, out, out0,
      copied, unread, index_writes, raised_at, pv, nm>>

runVars ==
    <<pc, root_exists, tree, recipe_files, idx, text, web_path, recipes, out, out0,
      copied, unread, index_writes, raised_at>>

PvIdle == [text |-> <<>>, max_length |-> 0, result |-> <<>>, applied |-> FALSE]

NmIdle == [i |-> 1, j |-> 2, a |-> <<>>, b |-> <<>>, out |-> <<>>, named |-> FALSE]

(***************************************************************************)
(* One run of index_recipes (lines 67-153).                                *)
(***************************************************************************)
Init ==
    /\ pc = "check"
    /\ root_exists \in BOOLEAN
    /\ tree \in (IF root_exists THEN Traversals ELSE {<<>>})
    /\ recipe_files = <<>>
    /\ idx = 1
    /\ text = <<>>
    /\ web_path = <<>>
    /\ recipes = <<>>
    /\ out0 \in OutputsBefore
    /\ out = out0
    /\ copied = {}
    /\ unread = {}
    /\ index_writes = 0
    /\ raised_at = "none"
    /\ pv = PvIdle
    /\ nm = NmIdle

\* line 79 with the check dropped
RootMissingIgnored == FALSE

\* line 79: not recipes_path.exists()
RootMissing == ~root_exists

\* lines 79-81: a missing root is reported and the function returns
CheckRoot ==
    /\ pc = "check"
    /\ pc' = IF RootMissing THEN "returned" ELSE "mkdir"
    /\ UNCHANGED <<root_exists, tree, recipe_files, idx, text, web_path, recipes,
                   out, out0, copied, unread, index_writes, raised_at, pv, nm>>

\* lines 84-85: mkdir(exist_ok=True) creates the copy subdirectory or keeps it
MakeCopyDir ==
    /\ pc = "mkdir"
    /\ out' = [out EXCEPT !.dir_exists = TRUE]
    /\ pc' = "discover"
    /\ UNCHANGED <<root_exists, tree, recipe_files, idx, text, web_path, recipes,
                   out0, copied, unread, index_writes, raised_at, pv, nm>>

\* line 85: mkdir raises (output_dir missing, no parents=True; 'recipes' is a
\* regular file; no permission) and nothing catches it
MakeCopyDirRaises ==
    /\ pc = "mkdir"
    /\ ~out.dir_exists
    /\ pc' = "raised"
    /\ raised_at' = "mkdir"
    /\ UNCHANGED <<root_exists, tree, recipe_files, idx, text, web_path, recipes,
                   out, out0, copied, unread, index_writes, pv, nm>>

\* lines 94-97: the recognised files, in traversal order
Discover ==
    /\ pc = "discover"
    /\ recipe_files' = SelectRecipeFiles(tree)
    /\ pc' = "loop"
    /\ UNCHANGED <<root_exists, tree, idx, text, web_path, recipes, out, out0,
                   copied, unread, index_writes, raised_at, pv, nm>>

\* line 99 leaving the loop one file early
LoopFinishedEarly(i, files) == i >= Len(files)

\* line 99: enumerate(recipe_files, 1) is exhausted
LoopFinished(i, files) == i > Len(files)

\* lines 99-117: the extractor of the file's type gives its text
Extract ==
    /\ pc = "loop"
    /\ ~LoopFinished(idx, recipe_files)
    /\ text' = recipe_files[idx].body
    /\ pc' = "copy"
    /\ UNCHANGED <<root_exists, tree, recipe_files, idx, web_path, recipes, out,
                   out0, copied, unread, index_writes, raised_at, pv, nm>>

\* lines 25-30, 42-47, 54-56, 115-117: the extractor fails, reports and
\* returns "", and the file goes on to the copy step
ExtractFails ==
    /\ pc = "loop"
    /\ ~LoopFinished(idx, recipe_files)
    /\ text' = <<>>
    /\ unread' = unread \cup {idx}
    /\ pc' = "copy"
    /\ UNCHANGED <<root_exists, tree, recipe_files, idx, web_path, recipes, out,
                   out0, copied, index_writes, raised_at, pv, nm>>

\* lines 121-127: copy2 writes the file under its safe name
Copy ==
    /\ pc = "copy"
    /\ LET safe == safe_filename(idx, recipe_files[idx].name)
       IN  /\ out' = [out EXCEPT !.dir = (safe :> recipe_files[idx]) @@ out.dir]
           /\ web_path' = WebPath(safe)
    /\ copied' = copied \cup {idx}
    /\ pc' = "record"
    /\ UNCHANGED <<root_exists, tree, recipe_files, idx, text, recipes, out0,
                   unread, index_writes, raised_at, pv, nm>>

\* lines 128-130 without the continue
CopyErrorFallsThrough == "record"

\* lines 128-130: continue, on to the next file
CopyErrorTarget == "loop"

\* lines 125-130: copy2 raises; the error is printed and the file is skipped
CopyFails ==
    /\ pc = "copy"
    /\ pc' = CopyErrorTarget
    /\ idx' = IF pc' = "loop" THEN idx + 1 ELSE idx
    /\ UNCHANGED <<root_exists, tree, recipe_files, text, web_path, recipes, out,
                   out0, copied, unread, index_writes, raised_at, pv, nm>>

\* lines 132-140
Recipe(i, f, t, path) ==
    [id |-> i,
     filename |-> f.name,
     file_path |-> path,
     type |-> file_type(Lower(Suffix(f.name))),
     content |-> t,
     preview |-> create_preview(t, DefaultMaxLength),
     size |-> f.size]

\* lines 132-142: the record is built and appended
Record ==
    /\ pc = "record"
    /\ recipes' = Append(recipes, Recipe(idx, recipe_files[idx], text, web_path))
    /\ idx' = idx + 1
    /\ pc' = "loop"
    /\ UNCHANGED <<root_exists, tree, recipe_files, text, web_path, out, out0,
                   copied, unread, index_writes, raised_at, pv, nm>>

\* line 139: filepath.stat() raises (the source vanished after the copy) and
\* nothing catches it
StatRaises ==
    /\ pc = "record"
    /\ pc' = "raised"
    /\ raised_at' = "stat"
    /\ UNCHANGED <<root_exists, tree, recipe_files, idx, text, web_path, recipes,
                   out, out0, copied, unread, index_writes, pv, nm>>

\* lines 145-153: the records are serialized to the index path
WriteIndex ==
    /\ pc = "loop"
    /\ LoopFinished(idx, recipe_files)
    /\ out' = [out EXCEPT !.index = WrittenIndex(recipes)]
    /\ index_writes' = index_writes + 1
    /\ pc' = "done"
    /\ UNCHANGED <<root_exists, tree, recipe_files, idx, text, web_path, recipes,
                   out0, copied, unread, raised_at, pv, nm>>

\* lines 146-147: open() raises and the index path is as it was, or the
\* write fails after open() truncated the file; nothing catches either
WriteIndexRaises ==
    /\ pc = "loop"
    /\ LoopFinished(idx, recipe_files)
    /\ out' \in {out, [out EXCEPT !.index = PartialIndex]}
    /\ pc' = "raised"
    /\ raised_at' = "write"
    /\ UNCHANGED <<root_exists, tree, recipe_files, idx, text, web_path, recipes,
                   out0, copied, unread, index_writes, pv, nm>>

Next ==
    \/ CheckRoot
    \/ MakeCopyDir
    \/ MakeCopyDirRaises
    \/ Discover
    \/ Extract
    \/ ExtractFails
    \/ Copy
    \/ CopyFails
    \/ Record
    \/ StatRaises
    \/ WriteIndex
    \/ WriteIndexRaises

Spec == Init /\ [][Next]_vars

(***************************************************************************)
(* create_preview on bounded inputs.                                       *)
(***************************************************************************)
\* word characters and whitespace characters the texts are built from
TextAlphabet == {"a", "b", " ", "\n"}

\* the run's variables while another specification is checked
RunIdle ==
    /\ pc = "idle"
    /\ root_exists = FALSE
    /\ tree = <<>>
    /\ recipe_files = <<>>
    /\ idx = 1
    /\ text = <<>>
    /\ web_path = <<>>
    /\ recipes = <<>>
    /\ out0 = [dir_exists |-> FALSE, dir |-> <<>>, index |-> NoIndex]
    /\ out = out0
    /\ copied = {}
    /\ unread = {}
    /\ index_writes = 0
    /\ raised_at = "none"

InitPreview ==
    /\ RunIdle
    /\ nm = NmIdle
    /\ \E t \in StringsUpTo(TextAlphabet, MaxTextLen), m \in 0..MaxLength :
          pv = [text |-> t, max_length |-> m, result |-> <<>>, applied |-> FALSE]

\* line 138: the preview of the text is computed
ApplyPreview ==
    /\ ~pv.applied
    /\ pv' = [pv EXCEPT !.result = create_preview(pv.text, pv.max_length),
                        !.applied = TRUE]
    /\ UNCHANGED <<runVars, nm>>

NextPreview == ApplyPreview

SpecPreview == InitPreview /\ [][NextPreview]_vars

(***************************************************************************)
(* The copy names of two files of one run.                                 *)
(***************************************************************************)
\* characters of file names: a letter, the space, the underscore, digits
NameAlphabet == {"a", " ", "_", "0", "1"}

\* enumerate counters around the widths at which f"{idx:03d}" changes
SeqNumbers == {1, 10, 100, 999, 1000, 1001}

InitNames ==
    /\ RunIdle
    /\ pv = PvIdle
    /\ \E i, j \in SeqNumbers, a, b \in StringsUpTo(NameAlphabet, MaxNameLen) :
          /\ i < j
          /\ nm = [i |-> i, j |-> j, a |-> a, b |-> b, out |-> <<>>, named |-> FALSE]

\* lines 121-122 for the files at positions i and j of one run
NameCopies ==
    /\ ~nm.named
    /\ nm' = [nm EXCEPT !.out = <<safe_filename(nm.i, nm.a), safe_filename(nm.j, nm.b)>>,
                        !.named = TRUE]
    /\ UNCHANGED <<runVars, pv>>

NextNames == NameCopies

SpecNames == InitNames /\ [][NextNames]_vars

(***************************************************************************)
(* Properties.                                                             *)
(***************************************************************************)
\* the records of the index file, once the run has written it
IndexRecords == out.index.records

IndexWritten == pc = "done" /\ out.index.state = "written"

\* the part of a truncated preview before its "..." suffix
BeforeEllipsis(r) == SubSeq(r, 1, Len(r) - 3)

EndsWithEllipsis(r) == Len(r) >= 3 /\ SubSeq(r, Len(r) - 2, Len(r)) = Ellipsis

\* C1: the ids of the records written to the index are exactly 1..N in
\* order, N the number of records, whatever copies succeeded or failed.
C1_IdsAreOneToN ==
    IndexWritten => \A k \in 1..Len(IndexRecords) : IndexRecords[k].id = k

\* C2: the written index holds exactly one record for each discovered file
\* whose copy succeeded and none for a file whose copy failed; the loop went
\* through every discovered file; a file whose extraction failed is recorded
\* with empty content.
C2_OneRecordPerCopiedFile ==
    IndexWritten =>
        /\ idx = Len(recipe_files) + 1
        /\ Len(IndexRecords) = Cardinality(copied)
        /\ \A i \in 1..Len(recipe_files) :
              Cardinality({k \in 1..Len(IndexRecords) : IndexRecords[k].id = i})
                 = (IF i \in copied THEN 1 ELSE 0)
        /\ \A k \in 1..Len(IndexRecords) :
              /\ IndexRecords[k].id \in copied
              /\ IndexRecords[k].filename = recipe_files[IndexRecords[k].id].name
              /\ IndexRecords[k].id \in unread => IndexRecords[k].content = <<>>
              /\ IndexRecords[k].id \notin unread =>
                    IndexRecords[k].content = recipe_files[IndexRecords[k].id].body

\* C2 witness: a copy failure was followed by a file whose extraction failed
\* and which was copied, and the index was written.
C2_Witness ==
    /\ IndexWritten
    /\ \E i, j \in 1..Len(recipe_files) :
          i < j /\ i \notin copied /\ j \in copied /\ j \in unread

\* C3: a truncated preview is, before its "...", a prefix of the cleaned text
\* that ends where a word of the cleaned text ends (the next character of
\* the cleaned text is a space), also when the first max_length characters
\* hold no space.
C3_TruncationEndsAtWordEnd ==
    (pv.applied /\ Len(Cleaned(pv.text)) > pv.max_length) =>
        /\ EndsWithEllipsis(pv.result)
        /\ IsPrefixOf(BeforeEllipsis(pv.result), Cleaned(pv.text))
        /\ \/ BeforeEllipsis(pv.result) = <<>>
           \/ Cleaned(pv.text)[Len(BeforeEllipsis(pv.result)) + 1] = " "

\* C4: the preview without its "..." is at most max_length long (at most
\* max_length + 3 in all), and a cleaned text of at most max_length
\* characters is returned as it is.
C4_PreviewBounded ==
    pv.applied =>
        /\ Len(pv.result) <= pv.max_length + 3
        /\ Len(Cleaned(pv.text)) <= pv.max_length => pv.result = Cleaned(pv.text)
        /\ Len(Cleaned(pv.text)) > pv.max_length =>
              /\ EndsWithEllipsis(pv.result)
              /\ Len(BeforeEllipsis(pv.result)) <= pv.max_length
        /\ \A k \in 1..Len(pv.result) :
              pv.result[k] \in WhiteSpace => pv.result[k] = " "

\* C4 witness: a text was truncated to exactly max_length characters plus
\* the ellipsis.
C4_Witness ==
    /\ pv.applied
    /\ Len(Cleaned(pv.text)) > pv.max_length
    /\ pv.max_length > 0
    /\ Len(pv.result) = pv.max_length + 3

\* C5: a run over an existing root always completes: no step after the
\* path-existence check lets an exception leave index_recipes.
C5_RunNeverRaises == root_exists => pc # "raised"

\* C6: with a missing root the run returns with the output location as it
\* was: no index written or overwritten, no copy subdirectory created, no
\* file copied.
C6_MissingRootLeavesOutput ==
    ~root_exists =>
        /\ pc \in {"check", "returned"}
        /\ out = out0
        /\ copied = {}
        /\ index_writes = 0

\* C6 witness: the run returned on a missing root with an earlier run's
\* index and copies in place.
C6_Witness ==
    /\ ~root_exists
    /\ pc = "returned"
    /\ out0.index = StaleIndex
    /\ out0.dir # <<>>

\* C7: when the index is written, each record's file_path names a file of
\* the copy subdirectory, and that file is the copy of the record's own
\* source file.
C7_FilePathResolves ==
    IndexWritten =>
        \A k \in 1..Len(IndexRecords) :
            LET r == IndexRecords[k]
                file == SubSeq(r.file_path, Len(RecipesSlash) + 1, Len(r.file_path))
            IN  /\ IsPrefixOf(RecipesSlash, r.file_path)
                /\ out.dir_exists
                /\ file \in DOMAIN out.dir
                /\ r.id \in 1..Len(recipe_files)
                /\ out.dir[file] = recipe_files[r.id]

\* C7 witness: the index was written with records of two files of the same
\* name from different directories, over a copy an earlier run left.
C7_Witness ==
    /\ IndexWritten
    /\ out0.dir # <<>>
    /\ \E k, l \in 1..Len(IndexRecords) :
          /\ k < l
          /\ IndexRecords[k].filename = IndexRecords[l].filename
          /\ IndexRecords[k].id = 1

DotTxt == <<".", "t", "x", "t">>

\* the root holds one recognised .txt file, it was read and copied without
\* error, its content fits the preview maximum, and the index was written
SingleTxtRun ==
    /\ IndexWritten
    /\ Len(tree) = 1
    /\ tree[1].is_file
    /\ Lower(Suffix(tree[1].name)) = DotTxt
    /\ Len(tree[1].body) <= DefaultMaxLength
    /\ copied = {1}
    /\ unread = {}

\* C8 as stated: for a root with a single .txt file whose content fits the
\* preview maximum the index holds one record, of type 'text', whose
\* content is the file's, whose preview equals its content and whose
\* file_path is 'recipes/001_' followed by the file's name.
C8_SingleTxtAsStated ==
    SingleTxtRun =>
        /\ Len(IndexRecords) = 1
        /\ IndexRecords[1].type = "text"
        /\ IndexRecords[1].content = tree[1].body
        /\ IndexRecords[1].preview = IndexRecords[1].content
        /\ IndexRecords[1].file_path
              = RecipesSlash \o <<"0", "0", "1", "_">> \o tree[1].name

\* no whitespace other than single spaces between words
IsClean(s) ==
    /\ \A k \in 1..Len(s) : s[k] \in WhiteSpace => s[k] = " "
    /\ \A k \in 1..Len(s) - 1 : ~(s[k] = " " /\ s[k + 1] = " ")
    /\ s # <<>> => (s[1] # " " /\ s[Len(s)] # " ")

\* the words of s: its maximal runs of non-whitespace characters, in order
RECURSIVE Words(_)
Words(s) ==
    IF DropLeadingSpace(s) = <<>> THEN <<>>
    ELSE LET t == DropLeadingSpace(s)
             n == IF \E k \in 1..Len(t) : IsSpace(t[k])
                  THEN (CHOOSE k \in 1..Len(t) :
                           IsSpace(t[k]) /\ \A m \in 1..(k - 1) : ~IsSpace(t[m])) - 1
                  ELSE Len(t)
         IN  <<SubSeq(t, 1, n)>> \o Words(SubSeq(t, n + 1, Len(t)))

\* C8 amended: for a root with a single .txt file that is read and copied
\* without error and whose content fits the preview maximum, the written
\* index holds one record, of type 'text', with id 1, whose content is the
\* file's, whose preview is the content with whitespace runs collapsed to
\* single spaces and trimmed (the content itself when it is already so),
\* and whose file_path is 'recipes/001_' followed by the file's name with
\* its spaces replaced by underscores.
C8_SingleTxtAmended ==
    SingleTxtRun =>
        /\ Len(IndexRecords) = 1
        /\ IndexRecords[1].id = 1
        /\ IndexRecords[1].filename = tree[1].name
        /\ IndexRecords[1].type = "text"
        /\ IndexRecords[1].content = tree[1].body
        /\ IsClean(IndexRecords[1].preview)
        /\ Words(IndexRecords[1].preview) = Words(IndexRecords[1].content)
        /\ IsClean(IndexRecords[1].content) =>
              IndexRecords[1].preview = IndexRecords[1].content
        /\ Len(IndexRecords[1].file_path) = 12 + Len(tree[1].name)
        /\ SubSeq(IndexRecords[1].file_path, 1, 12)
              = RecipesSlash \o <<"0", "0", "1", "_">>
        /\ \A k \in 1..Len(tree[1].name) :
              IndexRecords[1].file_path[12 + k]
                 = (IF tree[1].name[k] = " " THEN "_" ELSE tree[1].name[k])

\* C8 witness: such a run whose file name holds a space and whose content
\* holds a line break.
C8_Witness ==
    /\ SingleTxtRun
    /\ \E k \in 1..Len(tree[1].name) : tree[1].name[k] = " "
    /\ ~IsClean(tree[1].body)

\* C9: the index is written at most once and only after the loop went
\* through the last discovered file; until then the index path is as it was
\* before the run, so a run that stops inside the loop (line 139 raising)
\* has made copies and written no index.
C9_IndexWrittenOnceAtEnd ==
    /\ index_writes <= 1
    /\ index_writes = 1 => (pc = "done" /\ idx = Len(recipe_files) + 1)
    /\ pc = "done" => (index_writes = 1 /\ out.index = WrittenIndex(recipes))
    /\ pc \in {"check", "returned", "mkdir", "discover", "loop", "copy", "record"} =>
          (index_writes = 0 /\ out.index = out0.index)
    /\ (pc = "raised" /\ raised_at \in {"mkdir", "stat"}) =>
          (index_writes = 0 /\ out.index = out0.index)
    /\ (pc = "raised" /\ raised_at = "stat") => copied # {}

\* C9 witness: the run stopped inside the loop after two copies, with an
\* earlier run's index still at the index path.
C9_Witness ==
    /\ pc = "raised"
    /\ raised_at = "stat"
    /\ Cardinality(copied) >= 2
    /\ out.index = StaleIndex

\* C10: two files at distinct positions of one run get distinct copy names,
\* each the position zero-padded to 3 digits (longer from 1000 on), an
\* underscore, and the file name with its spaces replaced by underscores.
C10_CopyNamesDistinct ==
    nm.named =>
        /\ nm.out[1] # nm.out[2]
        /\ \A n \in 1..2 :
              LET pos == <<nm.i, nm.j>>[n]
                  name == <<nm.a, nm.b>>[n]
                  width == IF pos < 1000 THEN 3 ELSE 4
              IN  /\ Len(nm.out[n]) = width + 1 + Len(name)
                  /\ \A k \in 1..width : nm.out[n][k] \in
                        {"0", "1", "2", "3", "4", "5", "6", "7", "8", "9"}
                  /\ nm.out[n][width + 1] = "_"
                  /\ \A k \in 1..Len(name) :
                        nm.out[n][width + 1 + k]
                           = (IF name[k] = " " THEN "_" ELSE name[k])

\* C10 witness: the names of two files that differ only in space against
\* underscore, one of them at position 1000 or later.
C10_Witness ==
    /\ nm.named
    /\ nm.j >= 1000
    /\ nm.a # nm.b
    /\ ReplaceSpaces(nm.a) = ReplaceSpaces(nm.b)
    /\ nm.a # <<>>

====
